---- MODULE Spec2Model ----
(***************************************************************************)
(* Model of opt/opt.py, the training driver of svox2: dataset loading and  *)
(* ray shuffling, the epoch loop (eval step, training pass with the manual *)
(* SGD step, checkpoint save), the summary writer's step keys and the      *)
(* checkpoint directory.                                                   *)
(*                                                                         *)
(* Numbers are integers.  An mse value is 0 or a power of ten, so that     *)
(* math.log10 is exact on it; a quotient a / b is kept as the pair         *)
(* [num |-> a, den |-> b].  The renderer (svox2.SparseGrid.volume_render   *)
(* and its backward pass) is not part of opt.py: each call yields one of a *)
(* small set of outcomes, or raises.                                       *)
(***************************************************************************)
EXTENDS Integers, Sequences, FiniteSets, Bags, TLC

VARIABLES
    pc,            \* position of the script
    disk,          \* the data directory: manifests and images of both splits
    args,          \* parsed command line: n_epochs, batch_size, print_every
    dset,          \* Dataset(split="train")
    dset_test,     \* Dataset(split="test")
    grid,          \* svox2.SparseGrid: links, data.data, data.grad
    epoch_id,      \* loop variable of the epoch loop
    img_id,        \* eval_step: loop variable of the image loop
    stats_test,    \* eval_step: accumulated test mse / psnr
    n_images_gen,  \* eval_step: number of images rendered
    iter_id,       \* train_step: enumerate() index of the batch
    batch_begin,   \* train_step: first ray index of the batch
    stats,         \* train_step: accumulated training mse / psnr
    batches,       \* train_step: the [batch_begin, batch_end) slices taken this epoch
    mse_nums,      \* train_step: mse_num of every batch of this epoch, in order
    log,           \* summary writer: (tag, global_step) of every summary, in emission order
    emitted,       \* summary writer: the summaries (with values) written by the last step
    files,         \* train_dir: file name -> archive
    n_updates,     \* number of manual SGD updates applied to the grid so far
    n_evals,       \* number of eval steps completed so far
    n_saves        \* number of np.savez calls so far

vars == <<pc, disk, args, dset, dset_test, grid, epoch_id, img_id, stats_test,
          n_images_gen, iter_id, batch_begin, stats, batches, mse_nums, log,
          emitted, files, n_updates, n_evals, n_saves>>

(***************************************************************************)
(* Bounds of the model.                                                    *)
(***************************************************************************)
MaxEpochs == 2       \* n_epochs ranges over 1..MaxEpochs
MaxRays == 3         \* the training split has 1..MaxRays one-pixel images
MaxBatch == 2        \* batch_size ranges over 1..MaxBatch
MaxPrint == 2        \* print_every ranges over 1..MaxPrint
MaxShufRays == 3     \* shuffle_rays alone: datasets of up to MaxShufRays rays

\* Python's None, for a tensor that is not there
None == <<>>
\* a dataset and a grid that are not built yet
NoDataset ==
    [split |-> "", n_images |-> 0, hw |-> 0, c2w |-> <<>>, gt |-> <<>>,
     rays |-> [origins |-> <<>>, dirs |-> <<>>, gt |-> <<>>]]
NoGrid == [links |-> <<>>, data |-> <<>>, grad |-> None]
Colours == {"white", "red"}
Cams == {1, 2}

Min(a, b) == IF a < b THEN a ELSE b

RECURSIVE Flatten(_)
Flatten(ss) == IF ss = <<>> THEN <<>> ELSE Head(ss) \o Flatten(Tail(ss))

RECURSIVE SeqSum(_)
SeqSum(s) == IF s = <<>> THEN 0 ELSE Head(s) + SeqSum(Tail(s))

(***************************************************************************)
(* Dataset.__init__: one origin per image repeated for each of its pixels, *)
(* one direction per (camera rotation, pixel), the ground truth colour of  *)
(* each pixel; flattened over the images for the train split only.         *)
(***************************************************************************)
GenerateRays(frames, split) ==
    LET n == Len(frames)
        hw == Len(frames[1].img)
        origins == [i \in 1..n |-> [p \in 1..hw |-> frames[i].cam]]
        dirs == [i \in 1..n |-> [p \in 1..hw |-> <<frames[i].cam, p>>]]
        gt == [i \in 1..n |-> frames[i].img]
    IN  IF split = "train"
        THEN [origins |-> Flatten(origins), dirs |-> Flatten(dirs), gt |-> Flatten(gt)]
        ELSE [origins |-> origins, dirs |-> dirs, gt |-> gt]

Dataset(frames, split) ==
    [split |-> split,
     n_images |-> Len(frames),
     hw |-> Len(frames[1].img),
     c2w |-> [i \in 1..Len(frames) |-> frames[i].cam],
     gt |-> [i \in 1..Len(frames) |-> frames[i].img],
     rays |-> GenerateRays(frames, split)]

\* torch.randperm(n): any permutation of the n indices
Perms(n) == {p \in [1..n -> 1..n] : \A i, j \in 1..n : p[i] = p[j] => i = j}

\* tensor[perm]
Index(t, perm) == [k \in 1..Len(perm) |-> t[perm[k]]]

ShuffleGtUnpermuted(d, perm) ==
    IF d.split = "train"
    THEN [d EXCEPT !.rays = [origins |-> Index(d.rays.origins, perm),
                             dirs |-> Index(d.rays.dirs, perm),
                             gt |-> d.rays.gt]]
    ELSE d

\* Dataset.shuffle_rays, with perm the permutation randperm drew
shuffle_rays(d, perm) ==
    IF d.split = "train"
    THEN [d EXCEPT !.rays = [origins |-> Index(d.rays.origins, perm),
                             dirs |-> Index(d.rays.dirs, perm),
                             gt |-> Index(d.rays.gt, perm)]]
    ELSE d


(***************************************************************************)
(* Command line defaults and script constants (scaled to small integers;   *)
(* the two learning rates differ, as they do in the script).               *)
(***************************************************************************)
lr_sigma == 3
lr_sh == 2
init_rgb == 0
init_sigma == 1
N_IMGS_TO_SAVE == 5

Voxels == {1, 2}
Chans == {0, 1, 2}      \* channel 0 is the density, channels >= 1 are SH

\* svox2.SparseGrid(...) followed by the two initialising assignments
InitGrid ==
    [links |-> [v \in Voxels |-> v - 1],
     data |-> [v \in Voxels |-> [c \in Chans |-> IF c >= 1 THEN init_rgb ELSE init_sigma]],
     grad |-> None]

\* the mse values a render can yield: 0 (a perfect fit) or a power of ten
MseVals == {0, 1, 10}

\* the gradients of the loss of one batch with respect to grid.data
GradVals == {[v \in Voxels |-> [c \in Chans |-> k * (v + c)]] : k \in {-1, 1}}

RECURSIVE Log10(_)
Log10(m) == IF m = 1 THEN 0 ELSE 1 + Log10(m \div 10)

\* -10.0 * math.log10(mse_num); math.log10(0) raises
PsnrDefined(m) == m > 0
Psnr(m) == (-10) * Log10(m)

\* a / b
Div(a, b) == [num |-> a, den |-> b]

\* mse.backward(): autograd adds the batch gradient g to a stored gradient
Backward(stored, g) ==
    IF stored = None THEN g
    ELSE [v \in Voxels |-> [c \in Chans |-> stored[v][c] + g[v][c]]]

\* grad[..., 1:] *= lr_sh ; grad[..., :1] *= lr_sigma
ScaleGrad(g) ==
    [v \in Voxels |-> [c \in Chans |-> IF c >= 1 THEN g[v][c] * lr_sh ELSE g[v][c] * lr_sigma]]

\* variant: the gradient is left in place after the update
SgdStepKeepGrad(gr) ==
    [gr EXCEPT !.data = [v \in Voxels |-> [c \in Chans |->
                            gr.data[v][c] - ScaleGrad(gr.grad)[v][c]]],
               !.grad = ScaleGrad(gr.grad)]

\* variant: the update also writes into the link table
SgdStepAlsoLinks(gr) ==
    [gr EXCEPT !.data = [v \in Voxels |-> [c \in Chans |->
                            gr.data[v][c] - ScaleGrad(gr.grad)[v][c]]],
               !.links = [v \in Voxels |-> gr.links[v] - gr.grad[v][0]],
               !.grad = None]

\* the manual SGD step: scale, subtract, delete the gradient
SgdStep(gr) ==
    [gr EXCEPT !.data = [v \in Voxels |-> [c \in Chans |->
                            gr.data[v][c] - ScaleGrad(gr.grad)[v][c]]],
               !.grad = None]

epoch_size == Len(dset.rays.origins)
\* variant: the batch of the remainder is not counted
BatchesPerEpochFloor == epoch_size \div args.batch_size
batches_per_epoch == (epoch_size - 1) \div args.batch_size + 1
img_save_interval == dset_test.n_images \div N_IMGS_TO_SAVE

\* f'{img_id:04d}'
RECURSIVE ZeroPad4(_)
ZeroPad4(s) == IF Len(s) < 4 THEN ZeroPad4("0" \o s) ELSE s
ImageTag(i) == "test/image_" \o ZeroPad4(ToString(i))

\* variant: one file per epoch
CkptPathPerEpoch(e) == "ckpt_" \o ToString(e) \o ".npy"

\* path.join(args.train_dir, f'ckpt.npy'), relative to train_dir
ckpt_path(e) == "ckpt.npy"

\* np.savez(file, links=..., data=...): writes file + '.npz', replacing it
Savez(fs, file, links, data) ==
    ((file \o ".npz") :> [links |-> links, data |-> data]) @@ fs

Keys(evs) == [k \in 1..Len(evs) |-> [tag |-> evs[k].tag, step |-> evs[k].step]]

ZeroStats == [mse |-> 0, psnr |-> 0]

(***************************************************************************)
(* The data directories the runs are started on.                           *)
(***************************************************************************)
Frame(i) == [cam |-> i, img |-> <<IF i % 2 = 0 THEN "white" ELSE "red">>]
Frames(n) == [i \in 1..n |-> Frame(i)]

\* test splits: too small for the stride, exactly N_IMGS_TO_SAVE images, one
\* more, and twice as many
TestSizes == {N_IMGS_TO_SAVE - 1, N_IMGS_TO_SAVE, N_IMGS_TO_SAVE + 1, 2 * N_IMGS_TO_SAVE}

\* every training configuration, on a test split of N_IMGS_TO_SAVE images
TrainRuns ==
    /\ disk \in [train : {Frames(n) : n \in 1..MaxRays},
                 test : {Frames(N_IMGS_TO_SAVE)},
                 readable : BOOLEAN]
    /\ args \in [n_epochs : 1..MaxEpochs, batch_size : 1..MaxBatch,
                 print_every : 1..MaxPrint]

\* every test split, on a training split of two rays taken one at a time
TestRuns ==
    /\ disk \in [train : {Frames(2)},
                 test : {Frames(n) : n \in TestSizes},
                 readable : {TRUE}]
    /\ args \in [n_epochs : 1..MaxEpochs, batch_size : {1}, print_every : {1}]

Init ==
    /\ pc = "load"
    /\ (TrainRuns \/ TestRuns)
    /\ dset = NoDataset
    /\ dset_test = NoDataset
    /\ grid = NoGrid
    /\ epoch_id = 0
    /\ img_id = 0
    /\ stats_test = ZeroStats
    /\ n_images_gen = 0
    /\ iter_id = 0
    /\ batch_begin = 0
    /\ stats = ZeroStats
    /\ batches = <<>>
    /\ mse_nums = <<>>
    /\ log = <<>>
    /\ emitted = <<>>
    /\ files = <<>>
    /\ n_updates = 0
    /\ n_evals = 0
    /\ n_saves = 0

eval_locals == <<img_id, stats_test, n_images_gen>>
train_locals == <<iter_id, batch_begin, stats, batches, mse_nums>>
counters == <<n_updates, n_evals, n_saves>>
inputs == <<disk, args>>

\* lines 148-166: both datasets are read, the grid is built and initialised
Load ==
    /\ pc = "load"
    /\ disk.readable
    /\ dset' = Dataset(disk.train, "train")
    /\ dset_test' = Dataset(disk.test, "test")
    /\ grid' = InitGrid
    /\ pc' = "eval"
    /\ emitted' = <<>>
    /\ UNCHANGED <<inputs, epoch_id, eval_locals, train_locals, log, files, counters>>

\* json.load / imageio.imread raise on a malformed manifest or a missing image
LoadFail ==
    /\ pc = "load"
    /\ ~disk.readable
    /\ pc' = "failed"
    /\ emitted' = <<>>
    /\ UNCHANGED <<inputs, dset, dset_test, grid, epoch_id, eval_locals,
                   train_locals, log, files, counters>>


(***************************************************************************)
(* eval_step (lines 170-210), one model step per test image.               *)
(***************************************************************************)
\* gstep_id of the eval step
EvalGstep == epoch_id * batches_per_epoch

\* lines 174-180 when range() accepts the stride
EvalBegin ==
    /\ pc = "eval"
    /\ img_save_interval # 0
    /\ stats_test' = ZeroStats
    /\ n_images_gen' = 0
    /\ img_id' = 0
    /\ pc' = "eval_img"
    /\ emitted' = <<>>
    /\ UNCHANGED <<inputs, dset, dset_test, grid, epoch_id, train_locals, log,
                   files, counters>>

\* range(0, n_images, 0) raises ValueError
EvalStrideFail ==
    /\ pc = "eval"
    /\ img_save_interval = 0
    /\ pc' = "failed"
    /\ emitted' = <<>>
    /\ UNCHANGED <<inputs, dset, dset_test, grid, epoch_id, eval_locals,
                   train_locals, log, files, counters>>

ImageEvent == [tag |-> ImageTag(img_id), step |-> EvalGstep, val |-> "image"]

\* lines 181-201: one image is rendered, written and added to the statistics
EvalImage ==
    /\ pc = "eval_img"
    /\ img_id < dset_test.n_images
    /\ \E mse_num \in MseVals :
         /\ PsnrDefined(mse_num)
         /\ stats_test' = [mse |-> stats_test.mse + mse_num,
                           psnr |-> stats_test.psnr + Psnr(mse_num)]
    /\ n_images_gen' = n_images_gen + 1
    /\ img_id' = img_id + img_save_interval
    /\ emitted' = <<ImageEvent>>
    /\ log' = log \o Keys(emitted')
    /\ UNCHANGED <<pc, inputs, dset, dset_test, grid, epoch_id, train_locals,
                   files, counters>>

\* line 198 on an image whose mse is 0: the image is written, math.log10 raises
EvalPsnrFail ==
    /\ pc = "eval_img"
    /\ img_id < dset_test.n_images
    /\ \E mse_num \in MseVals : ~PsnrDefined(mse_num)
    /\ pc' = "failed"
    /\ emitted' = <<ImageEvent>>
    /\ log' = log \o Keys(emitted')
    /\ UNCHANGED <<inputs, dset, dset_test, grid, epoch_id, eval_locals,
                   train_locals, files, counters>>

\* line 190 raises (out of memory on the device)
EvalRenderFail ==
    /\ pc = "eval_img"
    /\ img_id < dset_test.n_images
    /\ pc' = "failed"
    /\ emitted' = <<>>
    /\ UNCHANGED <<inputs, dset, dset_test, grid, epoch_id, eval_locals,
                   train_locals, log, files, counters>>

\* lines 203-210: the image loop is over, the means are written
EvalEnd ==
    /\ pc = "eval_img"
    /\ img_id >= dset_test.n_images
    /\ emitted' = <<[tag |-> "test/psnr", step |-> EvalGstep,
                     val |-> Div(stats_test.psnr, n_images_gen)],
                    [tag |-> "test/mse", step |-> EvalGstep,
                     val |-> Div(stats_test.mse, n_images_gen)],
                    [tag |-> "epoch_id", step |-> EvalGstep,
                     val |-> Div(epoch_id, 1)]>>
    /\ log' = log \o Keys(emitted')
    /\ n_evals' = n_evals + 1
    /\ stats_test' = ZeroStats
    /\ n_images_gen' = 0
    /\ img_id' = 0
    /\ pc' = "train_begin"
    /\ UNCHANGED <<inputs, dset, dset_test, grid, epoch_id, train_locals, files,
                   n_updates, n_saves>>

(***************************************************************************)
(* train_step (lines 213-253).                                             *)
(***************************************************************************)
\* lines 215-217: the statistics start at zero and the rays are shuffled
TrainBegin ==
    /\ pc = "train_begin"
    /\ \E perm \in Perms(Len(dset.rays.origins)) : dset' = shuffle_rays(dset, perm)
    /\ stats' = ZeroStats
    /\ iter_id' = 0
    /\ batch_begin' = 0
    /\ batches' = <<>>
    /\ mse_nums' = <<>>
    /\ pc' = "train"
    /\ emitted' = <<>>
    /\ UNCHANGED <<inputs, dset_test, grid, epoch_id, eval_locals, log, files, counters>>

\* variant: the step restarts at 0 in every epoch
TrainGstepNoEpoch == iter_id
\* line 237
TrainGstep == iter_id + epoch_id * batches_per_epoch

\* the statistics after lines 231-232
StatsAdd(st, mse_num) == [mse |-> st.mse + mse_num, psnr |-> st.psnr + Psnr(mse_num)]

\* line 235
LogDue == (iter_id + 1) % args.print_every = 0

\* variant: the accumulators are never reset
StatsNeverReset(st) == st
\* the accumulators after lines 235-242
StatsNext(st) == IF LogDue THEN ZeroStats ELSE st

\* line 219
BatchEnd == Min(batch_begin + args.batch_size, epoch_size)

\* lines 239-241
TrainEvents(st) ==
    <<[tag |-> "mse", step |-> TrainGstep, val |-> Div(st.mse, args.print_every)],
      [tag |-> "psnr", step |-> TrainGstep, val |-> Div(st.psnr, args.print_every)]>>

\* lines 219-245: slice, render, loss, statistics, log when due, backward
TrainBatch ==
    /\ pc = "train"
    /\ batch_begin < epoch_size
    /\ \E mse_num \in MseVals, g \in GradVals :
         /\ PsnrDefined(mse_num)
         /\ LET st == StatsAdd(stats, mse_num)
            IN  /\ batches' = Append(batches, <<batch_begin, BatchEnd>>)
                /\ mse_nums' = Append(mse_nums, mse_num)
                /\ emitted' = IF LogDue THEN TrainEvents(st) ELSE <<>>
                /\ stats' = StatsNext(st)
                /\ grid' = [grid EXCEPT !.grad = Backward(grid.grad, g)]
    /\ log' = log \o Keys(emitted')
    /\ pc' = "sgd"
    /\ UNCHANGED <<inputs, dset, dset_test, epoch_id, eval_locals, iter_id,
                   batch_begin, files, counters>>

\* variant: the statistics are computed after the update
TrainPsnrFailAfterUpdate ==
    /\ pc = "train"
    /\ batch_begin < epoch_size
    /\ \E mse_num \in MseVals, g \in GradVals :
         /\ ~PsnrDefined(mse_num)
         /\ grid' = SgdStep([grid EXCEPT !.grad = Backward(grid.grad, g)])
    /\ pc' = "failed"
    /\ emitted' = <<>>
    /\ UNCHANGED <<inputs, dset, dset_test, epoch_id, eval_locals,
                   train_locals, log, files, counters>>

\* line 230 on a batch whose mse is 0: math.log10 raises before the update
TrainPsnrFail ==
    /\ pc = "train"
    /\ batch_begin < epoch_size
    /\ \E mse_num \in MseVals : ~PsnrDefined(mse_num)
    /\ pc' = "failed"
    /\ emitted' = <<>>
    /\ UNCHANGED <<inputs, dset, dset_test, grid, epoch_id, eval_locals,
                   train_locals, log, files, counters>>

\* line 224 raises (out of memory on the device)
TrainRenderFail ==
    /\ pc = "train"
    /\ batch_begin < epoch_size
    /\ pc' = "failed"
    /\ emitted' = <<>>
    /\ UNCHANGED <<inputs, dset, dset_test, grid, epoch_id, eval_locals,
                   train_locals, log, files, counters>>

\* lines 248-251, then the for loop moves to the next batch
SgdUpdate ==
    /\ pc = "sgd"
    /\ grid' = SgdStep(grid)
    /\ n_updates' = n_updates + 1
    /\ iter_id' = iter_id + 1
    /\ batch_begin' = batch_begin + args.batch_size
    /\ pc' = "train"
    /\ emitted' = <<>>
    /\ UNCHANGED <<inputs, dset, dset_test, epoch_id, eval_locals, stats, batches,
                   mse_nums, log, files, n_evals, n_saves>>

\* lines 256-262 and the step of the epoch loop
SaveBody ==
    /\ files' = Savez(files, ckpt_path(epoch_id), grid.links, grid.data)
    /\ n_saves' = n_saves + 1
    /\ epoch_id' = epoch_id + 1
    /\ pc' = IF epoch_id + 1 < args.n_epochs THEN "eval" ELSE "done"
    /\ iter_id' = 0
    /\ batch_begin' = 0
    /\ stats' = ZeroStats
    /\ batches' = <<>>
    /\ mse_nums' = <<>>
    /\ emitted' = <<>>
    /\ UNCHANGED <<inputs, dset, dset_test, grid, eval_locals, log, n_updates, n_evals>>

\* variant: the checkpoint is written inside the batch loop
SaveMidEpoch ==
    /\ pc = "train"
    /\ iter_id >= 1
    /\ SaveBody

\* lines 253-262: the batch loop is over, train_step returns, the checkpoint
\* is written, the epoch loop moves on
Save ==
    /\ pc = "train"
    /\ batch_begin >= epoch_size
    /\ SaveBody

Next ==
    \/ Load
    \/ LoadFail
    \/ EvalBegin
    \/ EvalStrideFail
    \/ EvalImage
    \/ EvalPsnrFail
    \/ EvalRenderFail
    \/ EvalEnd
    \/ TrainBegin
    \/ TrainBatch
    \/ TrainPsnrFail
    \/ TrainRenderFail
    \/ SgdUpdate
    \/ Save

Spec == Init /\ [][Next]_vars


(***************************************************************************)
(* Dataset.shuffle_rays on its own: a dataset of either split, shuffled    *)
(* any number of times.                                                    *)
(***************************************************************************)
ShufFrames ==
    UNION {[1..sz[1] -> [cam : Cams, img : [1..sz[2] -> Colours]]] :
              sz \in {x \in (1..MaxShufRays) \X (1..MaxShufRays) : x[1] * x[2] <= MaxShufRays}}

InitShuffle ==
    /\ pc = "shuffle"
    /\ disk = [train |-> <<>>, test |-> <<>>, readable |-> TRUE]
    /\ args = [n_epochs |-> 0, batch_size |-> 1, print_every |-> 1]
    /\ \E frames \in ShufFrames, split \in {"train", "test"} :
         dset = Dataset(frames, split)
    /\ dset_test = NoDataset
    /\ grid = NoGrid
    /\ epoch_id = 0
    /\ img_id = 0
    /\ stats_test = ZeroStats
    /\ n_images_gen = 0
    /\ iter_id = 0
    /\ batch_begin = 0
    /\ stats = ZeroStats
    /\ batches = <<>>
    /\ mse_nums = <<>>
    /\ log = <<>>
    /\ emitted = <<>>
    /\ files = <<>>
    /\ n_updates = 0
    /\ n_evals = 0
    /\ n_saves = 0

\* dset.shuffle_rays()
ShuffleRays ==
    /\ pc = "shuffle"
    /\ \E perm \in Perms(Len(dset.rays.origins)) : dset' = shuffle_rays(dset, perm)
    /\ UNCHANGED <<pc, inputs, dset_test, grid, epoch_id, eval_locals, train_locals,
                   log, emitted, files, counters>>

NextShuffle == ShuffleRays

SpecShuffle == InitShuffle /\ [][NextShuffle]_vars

(***************************************************************************)
(* Properties.                                                             *)
(***************************************************************************)
CkptFile == "ckpt.npy.npz"
Loaded == dset # NoDataset
EvalRunning == pc \in {"eval", "eval_img"}
BatchLoopOver == pc = "train" /\ batch_begin >= epoch_size

\* C1: the log only grows, and every summary a step writes carries a
\* global_step that is at least the step of every summary written before it
\* and greater than the step of every earlier summary of the same tag.
C1_StepsMonotone ==
    [][/\ Len(log') >= Len(log)
       /\ SubSeq(log', 1, Len(log)) = log
       /\ \A j \in (Len(log) + 1)..Len(log') :
            \A i \in 1..(j - 1) :
               /\ log'[i].step <= log'[j].step
               /\ log'[i].tag = log'[j].tag => log'[i].step < log'[j].step]_vars

\* a finished run of two epochs whose log holds an eval, then a training
\* log, then the next eval
C1_Witness ==
    /\ pc = "done"
    /\ \E i, j, k \in 1..Len(log) :
         /\ i < j /\ j < k
         /\ log[i].tag = "test/mse" /\ log[j].tag = "mse" /\ log[k].tag = "test/mse"
         /\ log[j].step > 0

\* C2: train_dir holds no checkpoint before the first save and exactly one,
\* at the fixed path, after it; there is one write per finished epoch; and
\* once an epoch is finished the archive equals the grid's links and data as
\* they are after all of that epoch's updates.
C2_SingleCheckpoint ==
    /\ n_saves = epoch_id
    /\ n_saves = 0 => DOMAIN files = {}
    /\ n_saves > 0 => DOMAIN files = {CkptFile}
    /\ (pc \in {"eval", "eval_img", "train_begin", "done"} /\ epoch_id >= 1) =>
          /\ files[CkptFile] = [links |-> grid.links, data |-> grid.data]
          /\ n_updates = epoch_id * batches_per_epoch
    /\ pc = "done" => n_saves = args.n_epochs

\* a finished run of two epochs: the archive was overwritten and holds a
\* trained grid
C2_Witness ==
    /\ pc = "done"
    /\ n_saves = 2
    /\ files[CkptFile].data # InitGrid.data

\* C3: a failure ends the run: nothing happens after it, and the failing
\* step itself applies no update, completes no eval and writes no
\* checkpoint, so train_dir holds no archive if the failure is in epoch 0
\* and otherwise the archive written at the end of the previous epoch.
C3_FailureTerminates ==
    [][/\ pc = "failed" => UNCHANGED vars
       /\ pc' = "failed" =>
            /\ files' = files
            /\ grid' = grid
            /\ counters' = counters
            /\ n_saves' = epoch_id'
            /\ epoch_id' = 0 => DOMAIN files' = {}
            /\ epoch_id' > 0 => DOMAIN files' = {CkptFile}
            /\ (epoch_id' > 0 /\ EvalRunning) =>
                  files'[CkptFile] = [links |-> grid.links, data |-> grid.data]]_vars

\* a run that failed in a training batch of a later epoch, with the
\* checkpoint of the epoch before on disk
C3_Witness ==
    /\ pc = "failed"
    /\ epoch_id >= 1
    /\ iter_id >= 1
    /\ DOMAIN files = {CkptFile}
    /\ files[CkptFile].data # grid.data

\* C4: an eval step leaves the grid and the training rays unchanged, only
\* the manual gradient step changes the data, nothing changes the links,
\* the checkpoint save changes neither array, and every archive holds the
\* links of the grid as constructed.
C4_OnlySgdMutates ==
    [][/\ EvalRunning => (grid' = grid /\ dset' = dset)
       /\ (pc # "load" /\ grid'.data # grid.data) => pc = "sgd"
       /\ pc # "load" => grid'.links = grid.links
       /\ n_saves' # n_saves => grid' = grid
       /\ \A f \in DOMAIN files' : files'[f].links = InitGrid.links]_vars

\* a finished run whose grid was trained and saved
C4_Witness ==
    /\ pc = "done"
    /\ n_saves >= 1
    /\ n_evals >= 1
    /\ grid.data # InitGrid.data
    /\ files[CkptFile].links = InitGrid.links

\* C5: eval, training pass and save follow each other in every epoch: the
\* eval of epoch e sees the grid after e * batches_per_epoch updates (the
\* initial grid for e = 0), a checkpoint is written only after all batches
\* of its epoch, and a finished run made n_epochs evals, n_epochs saves and
\* n_epochs * batches_per_epoch updates, none of the evals after the last
\* update.
C5_EpochOrder ==
    /\ EvalRunning =>
          /\ n_updates = epoch_id * batches_per_epoch
          /\ n_evals = epoch_id
          /\ n_saves = epoch_id
          /\ epoch_id < args.n_epochs
          /\ epoch_id = 0 => grid = InitGrid
    /\ pc \in {"train_begin", "train", "sgd"} =>
          /\ n_evals = epoch_id + 1
          /\ n_saves = epoch_id
          /\ n_updates = epoch_id * batches_per_epoch + iter_id
    /\ Loaded => n_saves * batches_per_epoch <= n_updates
    /\ pc = "done" =>
          /\ epoch_id = args.n_epochs
          /\ n_evals = args.n_epochs
          /\ n_saves = args.n_epochs
          /\ n_updates = args.n_epochs * batches_per_epoch

\* a finished run of two epochs of three batches each
C5_Witness ==
    /\ pc = "done"
    /\ n_evals = 2
    /\ n_updates = 6

\* C6: the batches taken so far are contiguous from 0, non-empty and at
\* most batch_size long; when the batch loop is over they end at
\* epoch_size, only the last is shorter than batch_size, every ray index
\* lies in exactly one of them and there are batches_per_epoch of them.
C6_BatchesPartition ==
    pc \in {"train", "sgd"} =>
        LET n == Len(batches) IN
        /\ n <= batches_per_epoch
        /\ n > 0 => batches[1][1] = 0
        /\ \A k \in 1..n :
             /\ batches[k][1] < batches[k][2]
             /\ batches[k][2] - batches[k][1] <= args.batch_size
             /\ batches[k][2] <= epoch_size
             /\ k < n => /\ batches[k + 1][1] = batches[k][2]
                         /\ batches[k][2] - batches[k][1] = args.batch_size
        /\ BatchLoopOver =>
             /\ n = batches_per_epoch
             /\ batches[n][2] = epoch_size
             /\ \A r \in 0..(epoch_size - 1) :
                  Cardinality({k \in 1..n : batches[k][1] <= r /\ r < batches[k][2]}) = 1

\* the end of an epoch of three rays taken in batches of two: two batches,
\* the last of one ray
C6_Witness ==
    /\ BatchLoopOver
    /\ args.batch_size = 2
    /\ batches = <<(<<0, 2>>), (<<2, 3>>)>>

\* C7: no gradient is stored when a batch starts, the gradient the update
\* uses is that of the current batch alone, and the update subtracts
\* lr_sigma times the gradient from channel 0 and lr_sh times the gradient
\* from every other channel, and deletes the gradient.
C7_ManualSgd ==
    [][/\ pc' \in {"train_begin", "train", "eval", "done"} => grid'.grad = None
       /\ (pc = "train" /\ pc' = "sgd") => grid'.grad \in GradVals
       /\ pc = "sgd" =>
            /\ \A v \in Voxels :
                 /\ grid'.data[v][0] = grid.data[v][0] - lr_sigma * grid.grad[v][0]
                 /\ \A c \in Chans \ {0} :
                      grid'.data[v][c] = grid.data[v][c] - lr_sh * grid.grad[v][c]
            /\ grid'.grad = None
            /\ pc' = "train"]_vars

\* the start of a batch after two updates in the second epoch
C7_Witness ==
    /\ pc = "train"
    /\ epoch_id = 1
    /\ iter_id = 1
    /\ grid.grad = None
    /\ grid.data # InitGrid.data

\* the bag of (origin, dir, gt) triples of a flat ray set
TripleBag(r) ==
    LET n == Len(r.origins)
        T(k) == <<r.origins[k], r.dirs[k], r.gt[k]>>
    IN  [t \in {T(k) : k \in 1..n} |-> Cardinality({k \in 1..n : T(k) = t})]

\* the rays as built at load time, from the images and poses the dataset keeps
LoadedRays(d) ==
    GenerateRays([i \in 1..d.n_images |-> [cam |-> d.c2w[i], img |-> d.gt[i]]], d.split)

\* C8: after any number of shuffles the three ray arrays of the train split
\* have their load-time length and hold the load-time bag of (origin, dir,
\* gt) triples; the rays of another split are exactly the load-time rays.
C8_ShufflePreservesRays ==
    Loaded =>
        /\ Len(dset.rays.origins) = Len(LoadedRays(dset).origins)
        /\ Len(dset.rays.dirs) = Len(dset.rays.origins)
        /\ Len(dset.rays.gt) = Len(dset.rays.origins)
        /\ dset.split = "train" => TripleBag(dset.rays) = TripleBag(LoadedRays(dset))
        /\ dset.split # "train" => dset.rays = LoadedRays(dset)

\* a train split of three rays with two colours whose rays are no longer in
\* load order
C8_Witness ==
    /\ pc = "shuffle"
    /\ dset.split = "train"
    /\ Len(dset.rays.origins) = 3
    /\ dset.rays.dirs # LoadedRays(dset).dirs
    /\ \E i, j \in 1..3 : dset.rays.gt[i] # dset.rays.gt[j]

\* the tags of the images written by the eval step in progress
ImagesWritten ==
    {log[k].tag : k \in {m \in 1..Len(log) : log[m].step = EvalGstep /\ log[m].tag # "epoch_id"}}

\* C9: with at least N_IMGS_TO_SAVE test images, an eval step renders
\* exactly N_IMGS_TO_SAVE images, those at the multiples of
\* n_images // N_IMGS_TO_SAVE from 0 on.
C9_RendersExactlyFive ==
    (pc = "eval_img" /\ img_id >= dset_test.n_images) =>
        /\ n_images_gen = N_IMGS_TO_SAVE
        /\ \A k \in 0..(N_IMGS_TO_SAVE - 1) : ImageTag(k * img_save_interval) \in ImagesWritten

\* the iter_ids of the training logs of the current epoch
LoggedIters ==
    {log[k].step - epoch_id * batches_per_epoch :
        k \in {m \in 1..Len(log) : log[m].tag = "mse" /\ log[m].step >= epoch_id * batches_per_epoch}}

\* the logged averages batch b (counted from 0) is part of
AveragesOf(b) == {i \in LoggedIters : i - args.print_every < b /\ b <= i}

\* C10 as stated: at the end of an epoch every batch is part of exactly one
\* logged average.
C10_EveryBatchInOneAverage ==
    BatchLoopOver => \A b \in 0..(Len(mse_nums) - 1) : Cardinality(AveragesOf(b)) = 1

Window(n) == SubSeq(mse_nums, n - args.print_every + 1, n)
Pending(n) == SubSeq(mse_nums, n - (n % args.print_every) + 1, n)
RECURSIVE PsnrSum(_)
PsnrSum(ms) == IF ms = <<>> THEN 0 ELSE Psnr(Head(ms)) + PsnrSum(Tail(ms))

\* C10 amended: a training log is written exactly when iter_id + 1 is a
\* multiple of print_every, its values are the means of the print_every
\* most recent batches of the epoch, the accumulators hold exactly the
\* batches since the last log (none at the start of the epoch and after a
\* log), and every batch is part of at most one logged average: of one if
\* it precedes the last multiple of print_every, of none otherwise.
C10_WindowAverages ==
    pc \in {"train", "sgd"} =>
        LET n == Len(mse_nums) IN
        /\ stats.mse = SeqSum(Pending(n))
        /\ stats.psnr = PsnrSum(Pending(n))
        /\ n % args.print_every = 0 => stats = ZeroStats
        /\ pc = "sgd" =>
             /\ n = iter_id + 1
             /\ emitted # <<>> <=> n % args.print_every = 0
             /\ emitted # <<>> =>
                  /\ Len(emitted) = 2
                  /\ emitted[1].tag = "mse"
                  /\ emitted[1].val = Div(SeqSum(Window(n)), args.print_every)
                  /\ emitted[2].tag = "psnr"
                  /\ emitted[2].val = Div(PsnrSum(Window(n)), args.print_every)
                  /\ emitted[1].step = epoch_id * batches_per_epoch + iter_id
        /\ LoggedIters = {i \in 0..(n - 1) : (i + 1) % args.print_every = 0}
        /\ \A b \in 0..(n - 1) :
             Cardinality(AveragesOf(b)) =
                IF b < args.print_every * (n \div args.print_every) THEN 1 ELSE 0

\* the end of an epoch of three batches logged every two: the first two
\* batches, of different mse, were averaged, the third is in no average
C10_Witness ==
    /\ BatchLoopOver
    /\ args.print_every = 2
    /\ Len(mse_nums) = 3
    /\ mse_nums[1] # mse_nums[2]
    /\ Cardinality(AveragesOf(0)) = 1
    /\ AveragesOf(2) = {}

====
